---- MODULE Spec2Model ----
(***************************************************************************)
(* Model of public_data_api_ssl_adapter.py: the legacy-TLS HTTPAdapter,    *)
(* the session factory and the two convenience request functions.          *)
(*                                                                         *)
(* Strings the code inspects or builds are sequences: header values are    *)
(* sequences of characters, the OpenSSL cipher string is a sequence of     *)
(* tokens in which ":" and "!" are tokens of their own.  Objects (header   *)
(* mappings, adapters, sessions) live in heaps indexed by their identity,  *)
(* so that aliasing is something a check can find.                         *)
(***************************************************************************)
EXTENDS Integers, Sequences, TLC

\* ------------------------------------------------------------------ bounds
MaxSessions == 2
MaxAdapters == 1

\* ------------------------------------------------- the ssl library's values
\* ssl.TLSVersion members the code names (TLSv1, TLSv1_2) and their
\* neighbours, with the wire values the ssl module gives them.
TLSVersion ==
    [SSLv3 |-> 768, TLSv1 |-> 769, TLSv1_1 |-> 770, TLSv1_2 |-> 771,
     TLSv1_3 |-> 772]

AllVersions ==
    {TLSVersion.SSLv3, TLSVersion.TLSv1, TLSVersion.TLSv1_1,
     TLSVersion.TLSv1_2, TLSVersion.TLSv1_3}

CERT_NONE == "CERT_NONE"
CERT_REQUIRED == "CERT_REQUIRED"

OP_LEGACY_SERVER_CONNECT == "OP_LEGACY_SERVER_CONNECT"
OP_DONT_INSERT_EMPTY_FRAGMENTS == "OP_DONT_INSERT_EMPTY_FRAGMENTS"

\* The ssl module the program imports.  Which option constants the module
\* defines and whether the OpenSSL build still carries 3DES differ between
\* installations; none of it is decided by the program.
SslLibraries ==
    [hasLegacyServerConnect : BOOLEAN,
     hasDontInsertEmptyFragments : BOOLEAN,
     has3DES : BOOLEAN]

\* hasattr(ssl, name)
hasattr(lib, name) ==
    CASE name = OP_LEGACY_SERVER_CONNECT -> lib.hasLegacyServerConnect
      [] name = OP_DONT_INSERT_EMPTY_FRAGMENTS ->
             lib.hasDontInsertEmptyFragments
      [] OTHER -> FALSE

\* The cipher suites OpenSSL knows by name, with the two classes the
\* exclusions of the cipher string speak about.
CipherCatalogue ==
    << [name |-> "ECDHE-RSA-AES128-GCM-SHA256", aNULL |-> FALSE, eNULL |-> FALSE],
       [name |-> "AES128-SHA", aNULL |-> FALSE, eNULL |-> FALSE],
       [name |-> "AES256-SHA", aNULL |-> FALSE, eNULL |-> FALSE],
       [name |-> "DHE-RSA-AES128-SHA", aNULL |-> FALSE, eNULL |-> FALSE],
       [name |-> "DHE-RSA-AES256-SHA", aNULL |-> FALSE, eNULL |-> FALSE],
       [name |-> "DES-CBC3-SHA", aNULL |-> FALSE, eNULL |-> FALSE],
       [name |-> "ADH-AES128-SHA", aNULL |-> TRUE, eNULL |-> FALSE],
       [name |-> "NULL-SHA", aNULL |-> FALSE, eNULL |-> TRUE],
       [name |-> "AECDH-NULL-SHA", aNULL |-> TRUE, eNULL |-> TRUE] >>

CipherNames == {CipherCatalogue[i].name : i \in 1..Len(CipherCatalogue)}

CipherByName(n) ==
    CHOOSE c \in {CipherCatalogue[i] : i \in 1..Len(CipherCatalogue)} :
        c.name = n

\* The suites a given OpenSSL build can offer at all.
BuildCiphers(lib) ==
    {n \in CipherNames : n = "DES-CBC3-SHA" => lib.has3DES}

InClass(n, class) ==
    CASE n \notin CipherNames -> FALSE
      [] class = "aNULL" -> CipherByName(n).aNULL
      [] class = "eNULL" -> CipherByName(n).eNULL
      [] OTHER -> FALSE

RECURSIVE FilterSeq(_, _)
FilterSeq(s, keep) ==
    IF s = << >> THEN << >>
    ELSE IF Head(s) \in keep THEN << Head(s) >> \o FilterSeq(Tail(s), keep)
         ELSE FilterSeq(Tail(s), keep)

Range(s) == {s[i] : i \in 1..Len(s)}

\* sep.join(items), each item one token
RECURSIVE Join(_, _)
Join(sep, items) ==
    IF items = << >> THEN << >>
    ELSE IF Len(items) = 1 THEN << Head(items) >>
         ELSE << Head(items), sep >> \o Join(sep, Tail(items))

\* OpenSSL splits the cipher string at ":" into items.
RECURSIVE SplitItems(_, _)
SplitItems(tokens, cur) ==
    IF tokens = << >> THEN (IF cur = << >> THEN << >> ELSE << cur >>)
    ELSE IF Head(tokens) = ":"
         THEN (IF cur = << >> THEN << >> ELSE << cur >>)
              \o SplitItems(Tail(tokens), << >>)
         ELSE SplitItems(Tail(tokens), Append(cur, Head(tokens)))

\* OpenSSL's processing of the items, left to right: a name appends the
\* suite if the build has it and it was not killed; "!class" removes the
\* suites of the class for good.
RECURSIVE ApplyItems(_, _, _, _)
ApplyItems(items, lib, chosen, killed) ==
    IF items = << >> THEN chosen
    ELSE LET it == Head(items) IN
         IF Head(it) = "!"
         THEN LET dead == {n \in CipherNames : InClass(n, it[2])} IN
              ApplyItems(Tail(items), lib,
                         FilterSeq(chosen, CipherNames \ dead),
                         killed \cup dead)
         ELSE IF /\ it[1] \in BuildCiphers(lib)
                 /\ it[1] \notin killed
                 /\ it[1] \notin Range(chosen)
              THEN ApplyItems(Tail(items), lib, Append(chosen, it[1]), killed)
              ELSE ApplyItems(Tail(items), lib, chosen, killed)

ResolveCiphers(lib, cipherString) ==
    ApplyItems(SplitItems(cipherString, << >>), lib, << >>, {})

\* ---------------------------------------------------------- the TLS context
\* create_urllib3_context(): what the installed urllib3 returns.  The
\* version floor (urllib3 1.x: none, 2.x: TLS 1.2) and the verification
\* settings vary with the urllib3 and Python versions; every state the ssl
\* library itself allows is a possible start.
DefaultCipherString == << "ECDHE-RSA-AES128-GCM-SHA256", ":", "AES128-SHA" >>

\* OpenSSL's TLS 1.3 suites: configured apart from the cipher string, so
\* set_ciphers leaves them as they are.
Tls13Suites ==
    << "TLS_AES_256_GCM_SHA384", "TLS_CHACHA20_POLY1305_SHA256",
       "TLS_AES_128_GCM_SHA256" >>

Urllib3Contexts(lib) ==
    {c \in [minimum_version : {TLSVersion.SSLv3, TLSVersion.TLSv1_2},
            maximum_version : {TLSVersion.TLSv1_3},
            ciphers : {ResolveCiphers(lib, DefaultCipherString)},
            ciphersuites : {Tls13Suites},
            check_hostname : BOOLEAN,
            verify_mode : {CERT_REQUIRED, CERT_NONE},
            options : {{"OP_NO_SSLv2", "OP_NO_SSLv3", "OP_NO_COMPRESSION"}}] :
        ~(c.check_hostname /\ c.verify_mode = CERT_NONE)}

\* An installation: the ssl module, and the context its urllib3 creates.
Installations ==
    UNION {{[ssl |-> l, urllib3_context |-> c] : c \in Urllib3Contexts(l)} :
              l \in SslLibraries}

\* The versions a handshake with this context can end on, for the versions
\* the server offers.
Negotiable(ctx, serverVersions) ==
    {v \in serverVersions :
        /\ v >= ctx.minimum_version
        /\ v <= ctx.maximum_version
        /\ (v = TLSVersion.SSLv3 => "OP_NO_SSLv3" \notin ctx.options)}

\* ctx.get_ciphers(): the TLS 1.3 suites, then the list set_ciphers chose
get_ciphers(ctx) == ctx.ciphersuites \o ctx.ciphers

\* The suites the ClientHello of a handshake with this context offers: a
\* suite is left out when no version the context allows can use it.
OfferedCiphers(ctx) ==
    (IF ctx.maximum_version >= TLSVersion.TLSv1_3
     THEN ctx.ciphersuites ELSE << >>)
    \o (IF ctx.minimum_version <= TLSVersion.TLSv1_2
        THEN ctx.ciphers ELSE << >>)

\* ------------------------------------------------------- init_poolmanager
weak_ciphers ==
    << "AES128-SHA", "AES256-SHA", "DHE-RSA-AES128-SHA",
       "DHE-RSA-AES256-SHA", "DES-CBC3-SHA" >>

\* cipher_string with the exclusions forgotten
cipher_string_without_exclusions == Join(":", weak_ciphers)

cipher_string ==
    Join(":", weak_ciphers) \o << ":", "!", "aNULL", ":", "!", "eNULL" >>

\* ContextStatements with the maximum version left at urllib3's
ContextStatementsWithoutMaximum ==
    << "minimum_version", "set_ciphers", "check_hostname", "verify_mode",
       "OP_LEGACY_SERVER_CONNECT", "OP_DONT_INSERT_EMPTY_FRAGMENTS" >>

\* ContextStatements with verify_mode set before check_hostname
ContextStatementsVerifyModeFirst ==
    << "minimum_version", "maximum_version", "set_ciphers",
       "verify_mode", "check_hostname",
       "OP_LEGACY_SERVER_CONNECT", "OP_DONT_INSERT_EMPTY_FRAGMENTS" >>

\* The statements of init_poolmanager between the creation of the context
\* and its hand-over, in program order.
ContextStatements ==
    << "minimum_version", "maximum_version", "set_ciphers",
       "check_hostname", "verify_mode",
       "OP_LEGACY_SERVER_CONNECT", "OP_DONT_INSERT_EMPTY_FRAGMENTS" >>

\* ctx.set_ciphers(...), the string resolved to the list chosen: OpenSSL
\* refuses a string that selects nothing.
set_ciphers(ctx, chosen) ==
    [ctx |-> [ctx EXCEPT !.ciphers = chosen],
     err |-> IF chosen = << >> THEN "SSLError" ELSE "none"]

\* One statement on the context: the context the statement asks for, and
\* the exception the ssl library answers with ("none": accepted).
Exec(stmt, lib, ctx) ==
    CASE stmt = "minimum_version" ->
             [ctx |-> [ctx EXCEPT !.minimum_version = TLSVersion.TLSv1],
              err |-> "none"]
      [] stmt = "maximum_version" ->
             [ctx |-> [ctx EXCEPT !.maximum_version = TLSVersion.TLSv1_2],
              err |-> "none"]
      [] stmt = "set_ciphers" ->
             set_ciphers(ctx, ResolveCiphers(lib, cipher_string))
      [] stmt = "check_hostname" ->
             [ctx |-> [ctx EXCEPT !.check_hostname = FALSE], err |-> "none"]
      [] stmt = "verify_mode" ->
             \* ssl refuses CERT_NONE while check_hostname is enabled
             [ctx |-> [ctx EXCEPT !.verify_mode = CERT_NONE],
              err |-> IF ctx.check_hostname THEN "ValueError" ELSE "none"]
      [] stmt = "OP_LEGACY_SERVER_CONNECT" ->
             \* unguarded attribute access on the ssl module
             IF hasattr(lib, OP_LEGACY_SERVER_CONNECT)
             THEN [ctx |-> [ctx EXCEPT !.options =
                                @ \cup {OP_LEGACY_SERVER_CONNECT}],
                   err |-> "none"]
             ELSE [ctx |-> ctx, err |-> "AttributeError"]
      [] stmt = "OP_DONT_INSERT_EMPTY_FRAGMENTS" ->
             IF hasattr(lib, OP_DONT_INSERT_EMPTY_FRAGMENTS)
             THEN [ctx |-> [ctx EXCEPT !.options =
                                @ \cup {OP_DONT_INSERT_EMPTY_FRAGMENTS}],
                   err |-> "none"]
             ELSE [ctx |-> ctx, err |-> "none"]

\* The run so far st, after a statement that ended as r: trace[i] is the
\* context statement i asked for.
AfterStatement(st, r) ==
    [ctx |-> IF r.err = "none" THEN r.ctx ELSE st.ctx,
     err |-> r.err,
     trace |-> Append(st.trace, r.ctx)]

\* Runs the statements in order until one raises.
RECURSIVE RunStatements(_, _, _)
RunStatements(stmts, lib, st) ==
    IF stmts = << >> \/ st.err # "none" THEN st
    ELSE RunStatements(Tail(stmts), lib,
                       AfterStatement(st, Exec(Head(stmts), lib, st.ctx)))

\* kwargs.setdefault("ssl_context", ctx): a caller's context wins
SetDefaultSslContext(kwargs, ctx) ==
    IF kwargs.ssl_context = << >>
    THEN [kwargs EXCEPT !.ssl_context = << ctx >>]
    ELSE kwargs

\* kwargs["ssl_context"] = ctx
SetSslContext(kwargs, ctx) == [kwargs EXCEPT !.ssl_context = << ctx >>]

\* The end of init_poolmanager after the run st of its statements:
\* kwargs["ssl_context"] = ctx and the call of super().init_poolmanager.
\* poolKwargs is what that call receives (<< >> when an exception came
\* first).
HandOver(ctx0, kwargs, st) ==
    [err |-> st.err,
     kwargs |-> kwargs,
     ctx0 |-> ctx0,
     trace |-> st.trace,
     cipher_string |-> cipher_string,
     poolKwargs |-> IF st.err = "none"
                    THEN << SetSslContext(kwargs, st.ctx) >>
                    ELSE << >>]

\* PublicDataApiSSLAdapter.init_poolmanager(*args, **kwargs) on a library
\* lib, where create_urllib3_context() returned ctx0.
init_poolmanager(lib, ctx0, kwargs) ==
    HandOver(ctx0, kwargs,
             RunStatements(ContextStatements, lib,
                           [ctx |-> ctx0, err |-> "none", trace |-> << >>]))

\* ------------------------------------------------------------ header values
UserAgentValue == << "U", "s", "e", "r", "-", "A", "g", "e", "n", "t" >>

AcceptValue == <<
    "a", "p", "p", "l", "i", "c", "a", "t", "i", "o", "n", "/", "j", "s",
    "o", "n", ",", " ", "a", "p", "p", "l", "i", "c", "a", "t", "i", "o",
    "n", "/", "x", "m", "l", ",", " ", "t", "e", "x", "t", "/", "p", "l",
    "a", "i", "n", ",", " ", "*", "/", "*" >>

AcceptLanguageValue == <<
    "k", "o", "-", "K", "R", ",", "k", "o", ";", "q", "=", "0", ".", "9",
    ",", "e", "n", ";", "q", "=", "0", ".", "8" >>

AcceptEncodingValue == <<
    "g", "z", "i", "p", ",", " ", "d", "e", "f", "l", "a", "t", "e", ",",
    " ", "b", "r" >>

ConnectionValue == << "k", "e", "e", "p", "-", "a", "l", "i", "v", "e" >>

UpgradeInsecureRequestsValue == << "1" >>

RefererValue == <<
    "h", "t", "t", "p", "s", ":", "/", "/", "w", "w", "w", ".", "d", "a",
    "t", "a", ".", "g", "o", ".", "k", "r" >>

\* HeaderSet with the Referer entry dropped
HeaderSetWithoutReferer ==
    [n \in {"User-Agent", "Accept", "Accept-Language", "Accept-Encoding",
            "Connection", "Upgrade-Insecure-Requests"} |->
        CASE n = "User-Agent" -> UserAgentValue
          [] n = "Accept" -> AcceptValue
          [] n = "Accept-Language" -> AcceptLanguageValue
          [] n = "Accept-Encoding" -> AcceptEncodingValue
          [] n = "Connection" -> ConnectionValue
          [] n = "Upgrade-Insecure-Requests" -> UpgradeInsecureRequestsValue]

\* The dict literal passed to session.headers.update
HeaderSet ==
    [n \in {"User-Agent", "Accept", "Accept-Language", "Accept-Encoding",
            "Connection", "Upgrade-Insecure-Requests", "Referer"} |->
        CASE n = "User-Agent" -> UserAgentValue
          [] n = "Accept" -> AcceptValue
          [] n = "Accept-Language" -> AcceptLanguageValue
          [] n = "Accept-Encoding" -> AcceptEncodingValue
          [] n = "Connection" -> ConnectionValue
          [] n = "Upgrade-Insecure-Requests" -> UpgradeInsecureRequestsValue
          [] n = "Referer" -> RefererValue]

\* requests' default_headers(): what a new Session starts with
DefaultHeaders ==
    [n \in {"User-Agent", "Accept-Encoding", "Accept", "Connection"} |->
        CASE n = "User-Agent" ->
                 << "p", "y", "t", "h", "o", "n", "-", "r", "e", "q", "u",
                    "e", "s", "t", "s" >>
          [] n = "Accept-Encoding" ->
                 << "g", "z", "i", "p", ",", " ", "d", "e", "f", "l", "a",
                    "t", "e" >>
          [] n = "Accept" -> << "*", "/", "*" >>
          [] n = "Connection" -> ConnectionValue]

\* needle in haystack, on strings
Contains(needle, haystack) ==
    \E i \in 0..(Len(haystack) - Len(needle)) :
        SubSeq(haystack, i + 1, i + Len(needle)) = needle

\* dict.clear()
Clear(h) == [n \in {} |-> << >>]

\* dict.update(other)
Update(h, other) ==
    [n \in DOMAIN h \cup DOMAIN other |->
        IF n \in DOMAIN other THEN other[n] ELSE h[n]]

\* del dict[name]
Delete(h, name) == [n \in DOMAIN h \ {name} |-> h[n]]

\* -------------------------------------------------------------------- state
VARIABLES
    install,      \* the installation the process runs on
    headerObjs,   \* heap of header mappings, by identity
    adapters,     \* heap of adapter objects, by identity
    sessions,     \* heap of session objects, by identity
    mutated,      \* sessions whose headers the caller changed after creation
    responses,    \* number of response objects created so far
    initLog,      \* init_poolmanager calls of the last operation, in order
    requestLog,   \* calls the sessions' request methods got in the last operation
    lastCall      \* the last operation of the caller and how it ended

vars ==
    << install, headerObjs, adapters, sessions, mutated, responses, initLog,
       requestLog, lastCall >>

\* The heaps and logs an operation works on, as one value.
World ==
    [headerObjs |-> headerObjs, adapters |-> adapters, sessions |-> sessions,
     responses |-> responses, initLog |-> << >>, requestLog |-> << >>]

NoKwargs == {}

\* HTTPAdapter.__init__ calls self.init_poolmanager(connections, maxsize,
\* block=pool_block): no ssl_context among the keyword arguments.
ConstructorKwargs == [block |-> FALSE, ssl_context |-> << >>]

\* A context a caller may pass to init_poolmanager itself.
CallerContext(inst) ==
    [inst.urllib3_context EXCEPT !.check_hostname = TRUE,
                                 !.verify_mode = CERT_REQUIRED,
                                 !.minimum_version = TLSVersion.TLSv1_2]

\* default_headers handing out one process-wide mapping
shared_default_headers(w) ==
    IF w.headerObjs = << >>
    THEN [w |-> [w EXCEPT !.headerObjs = Append(@, DefaultHeaders)], id |-> 1]
    ELSE [w |-> [w EXCEPT !.headerObjs[1] = DefaultHeaders], id |-> 1]

\* requests.utils.default_headers(): a new mapping for every session
default_headers(w) ==
    [w |-> [w EXCEPT !.headerObjs = Append(@, DefaultHeaders)],
     id |-> Len(w.headerObjs) + 1]

\* requests.adapters.HTTPAdapter(): the library's own adapter
HTTPAdapter(w) ==
    [w EXCEPT !.adapters =
        Append(@, [cls |-> "HTTPAdapter", poolKwargs |-> ConstructorKwargs])]

\* The constructor after its init_poolmanager call r: an exception in it
\* leaves no adapter behind.
Constructed(w, r) ==
    IF r.err # "none"
    THEN [w |-> [w EXCEPT !.initLog = Append(@, r)],
          err |-> r.err, id |-> 0, session |-> 0, response |-> 0]
    ELSE [w |-> [w EXCEPT !.initLog = Append(@, r),
                          !.adapters =
                              Append(@, [cls |-> "PublicDataApiSSLAdapter",
                                         poolKwargs |-> r.poolKwargs[1]])],
          err |-> "none", id |-> Len(w.adapters) + 1, session |-> 0,
          response |-> 0]

\* PublicDataApiSSLAdapter(): the inherited constructor runs the overridden
\* init_poolmanager.
PublicDataApiSSLAdapter(w, inst) ==
    Constructed(w, init_poolmanager(inst.ssl, inst.urllib3_context,
                                    ConstructorKwargs))

\* The rest of requests.Session() once the header mapping h exists: the
\* library's adapters mounted for both schemes.
SessionWithHeaders(h) ==
    [w |-> [HTTPAdapter(HTTPAdapter(h.w)) EXCEPT !.sessions =
               Append(@, [headers |-> h.id,
                          adapters |-> ("https://" :> Len(h.w.adapters) + 1
                                        @@ "http://" :> Len(h.w.adapters) + 2)])],
     id |-> Len(h.w.sessions) + 1]

\* requests.Session()
Session(w) == SessionWithHeaders(default_headers(w))

\* session.mount(prefix, adapter)
mount(w, s, prefix, a) ==
    [w EXCEPT !.sessions[s].adapters[prefix] = a]

\* session.headers.clear(); session.headers.update({...})
SetSessionHeaders(w, s) ==
    [w EXCEPT !.headerObjs[w.sessions[s].headers] =
        Update(Clear(@), HeaderSet)]

\* The method after PublicDataApiSSLAdapter() ended as a, for the new
\* session s: mount, set the headers, return the session.  An exception of
\* the constructor leaves the caller's heap w with the call logged.
MountAndReturn(w, s, a) ==
    IF a.err # "none"
    THEN [w |-> [w EXCEPT !.initLog = a.w.initLog],
          err |-> a.err, session |-> 0, response |-> 0]
    ELSE [w |-> SetSessionHeaders(mount(a.w, s, "https://", a.id), s),
          err |-> "none", session |-> s, response |-> 0]

\* The method after session = requests.Session()
WithSession(w, inst, s) ==
    MountAndReturn(w, s.id, PublicDataApiSSLAdapter(s.w, inst))

\* PublicDataApiSSLAdapter.create_public_data_api_session(self)
Adapter_create_public_data_api_session(w, inst, self) ==
    WithSession(w, inst, Session(w))

\* The factory function after adapter = PublicDataApiSSLAdapter()
FromAdapter(inst, adapter) ==
    IF adapter.err # "none"
    THEN [w |-> adapter.w, err |-> adapter.err, session |-> 0,
          response |-> 0]
    ELSE Adapter_create_public_data_api_session(adapter.w, inst, adapter.id)

\* create_public_data_api_session(), the module's factory function
create_public_data_api_session(w, inst) ==
    FromAdapter(inst, PublicDataApiSSLAdapter(w, inst))

\* What the network answers to one request: a response or an exception of
\* the HTTP/TLS library.
NetOutcomes ==
    {[err |-> "none", status |-> 200],
     [err |-> "ConnectionError", status |-> 0],
     [err |-> "Timeout", status |-> 0]}

\* session.request as the session sees it: one entry in the log, a new
\* response object unless the library raises.
SessionRequest(w, s, method, url, kwargs, net) ==
    [w |-> [w EXCEPT !.requestLog =
                Append(@, [session |-> s, method |-> method, url |-> url,
                           kwargs |-> kwargs, err |-> net.err,
                           response |-> IF net.err = "none"
                                        THEN w.responses + 1 ELSE 0]),
                     !.responses = IF net.err = "none" THEN @ + 1 ELSE @],
     err |-> net.err,
     session |-> 0,
     response |-> IF net.err = "none" THEN w.responses + 1 ELSE 0]

\* session.get(url, **kwargs)
SessionGet(w, s, url, kwargs, net) ==
    SessionRequest(w, s, "GET", url, kwargs, net)

\* session.post(url, **kwargs)
SessionPost(w, s, url, kwargs, net) ==
    SessionRequest(w, s, "POST", url, kwargs, net)

\* return session.get(url, **kwargs), c being how the factory call ended
ReturnGet(c, url, kwargs, net) ==
    IF c.err # "none"
    THEN [w |-> c.w, err |-> c.err, session |-> 0, response |-> 0]
    ELSE SessionGet(c.w, c.session, url, kwargs, net)

\* public_data_api_get(url, **kwargs)
public_data_api_get(w, inst, url, kwargs, net) ==
    ReturnGet(create_public_data_api_session(w, inst), url, kwargs, net)

\* ReturnPost that tries a second time when the request raises
ReturnPostWithRetry(c, url, kwargs, net) ==
    IF c.err # "none"
    THEN [w |-> c.w, err |-> c.err, session |-> 0, response |-> 0]
    ELSE IF net.err = "none"
         THEN SessionPost(c.w, c.session, url, kwargs, net)
         ELSE SessionPost(SessionPost(c.w, c.session, url, kwargs, net).w,
                          c.session, url, kwargs, net)

\* return session.post(url, **kwargs), c being how the factory call ended
ReturnPost(c, url, kwargs, net) ==
    IF c.err # "none"
    THEN [w |-> c.w, err |-> c.err, session |-> 0, response |-> 0]
    ELSE SessionPost(c.w, c.session, url, kwargs, net)

\* public_data_api_post(url, **kwargs)
public_data_api_post(w, inst, url, kwargs, net) ==
    ReturnPost(create_public_data_api_session(w, inst), url, kwargs, net)

\* ------------------------------------------------------------------ inputs
Urls == {"https://example.com", "https://apis.data.go.kr/endpoint"}

RequestKwargs ==
    {NoKwargs,
     {<< "json", << "key", "value" >> >>},
     {<< "params", << "serviceKey", "k" >> >>, << "timeout", << "30" >> >>}}

MutableHeaderNames == {"User-Agent", "X-Api-Key"}

MutableHeaderValues == {<< "k" >>}

\* ----------------------------------------------------------------- actions
\* The operation op ended as r: the heaps and logs it leaves, and the record
\* of the call.
Ended(op, url, kwargs, r) ==
    /\ headerObjs' = r.w.headerObjs
    /\ adapters' = r.w.adapters
    /\ sessions' = r.w.sessions
    /\ responses' = r.w.responses
    /\ initLog' = r.w.initLog
    /\ requestLog' = r.w.requestLog
    /\ lastCall' = [op |-> op, url |-> url, kwargs |-> kwargs,
                    err |-> r.err, response |-> r.response,
                    session |-> r.session,
                    sessionsBefore |-> Len(sessions)]

\* A step of the caller on a session's headers, leaving the heap w
Edited(w) == [w |-> w, err |-> "none", session |-> 0, response |-> 0]

\* adapter.init_poolmanager(**kwargs) on adapter a, the call ending as r
Reinitialised(w, a, r) ==
    [w |-> [w EXCEPT !.initLog = << r >>,
                     !.adapters[a].poolKwargs =
                         IF r.err = "none" THEN r.poolKwargs[1] ELSE @],
     err |-> r.err, session |-> 0, response |-> 0]

Init ==
    /\ install \in Installations
    /\ headerObjs = << >>
    /\ adapters = << >>
    /\ sessions = << >>
    /\ mutated = {}
    /\ responses = 0
    /\ initLog = << >>
    /\ requestLog = << >>
    /\ lastCall = [op |-> "start", url |-> "", kwargs |-> NoKwargs,
                   err |-> "none", response |-> 0, session |-> 0,
                   sessionsBefore |-> 0]

\* adapter = PublicDataApiSSLAdapter()
NewAdapter ==
    /\ Len(adapters) < MaxAdapters
    /\ Ended("PublicDataApiSSLAdapter", "", NoKwargs,
             PublicDataApiSSLAdapter(World, install))
    /\ UNCHANGED << install, mutated >>

\* adapter.init_poolmanager(..., **kwargs) called on an existing adapter,
\* with or without an ssl_context of the caller's
InitPoolmanager ==
    /\ \E a \in 1..Len(adapters), passed \in {<< >>, << CallerContext(install) >>} :
        /\ adapters[a].cls = "PublicDataApiSSLAdapter"
        /\ Ended("init_poolmanager", "", NoKwargs,
                 Reinitialised(World, a,
                     init_poolmanager(install.ssl, install.urllib3_context,
                         [block |-> adapters[a].poolKwargs.block,
                          ssl_context |-> passed])))
    /\ UNCHANGED << install, mutated >>

\* adapter.create_public_data_api_session()
CreateSessionMethod ==
    /\ Len(sessions) < MaxSessions
    /\ \E a \in 1..Len(adapters) :
        /\ adapters[a].cls = "PublicDataApiSSLAdapter"
        /\ Ended("method", "", NoKwargs,
                 Adapter_create_public_data_api_session(World, install, a))
    /\ UNCHANGED << install, mutated >>

\* create_public_data_api_session()
CreateSession ==
    /\ Len(sessions) < MaxSessions
    /\ Ended("function", "", NoKwargs,
             create_public_data_api_session(World, install))
    /\ UNCHANGED << install, mutated >>

\* public_data_api_get(url, **kwargs)
Get ==
    /\ Len(sessions) < MaxSessions
    /\ \E url \in Urls, kwargs \in RequestKwargs, net \in NetOutcomes :
        \E r \in {public_data_api_get(World, install, url, kwargs, net)} :
            Ended("GET", url, kwargs, r)
    /\ UNCHANGED << install, mutated >>

\* public_data_api_post(url, **kwargs)
Post ==
    /\ Len(sessions) < MaxSessions
    /\ \E url \in Urls, kwargs \in RequestKwargs, net \in NetOutcomes :
        \E r \in {public_data_api_post(World, install, url, kwargs, net)} :
            Ended("POST", url, kwargs, r)
    /\ UNCHANGED << install, mutated >>

\* session.headers[name] = value, by the caller
SetHeader ==
    /\ \E s \in 1..Len(sessions), name \in MutableHeaderNames,
          value \in MutableHeaderValues :
        /\ Ended("headers", "", NoKwargs,
                 Edited([World EXCEPT !.headerObjs[sessions[s].headers] =
                            Update(@, (name :> value))]))
        /\ mutated' = mutated \cup {s}
    /\ UNCHANGED install

\* del session.headers[name], by the caller
DelHeader ==
    /\ \E s \in 1..Len(sessions), name \in MutableHeaderNames :
        /\ name \in DOMAIN headerObjs[sessions[s].headers]
        /\ Ended("headers", "", NoKwargs,
                 Edited([World EXCEPT !.headerObjs[sessions[s].headers] =
                            Delete(@, name)]))
        /\ mutated' = mutated \cup {s}
    /\ UNCHANGED install

\* A caller that only builds adapters and TLS contexts.
NextTLS ==
    \/ NewAdapter
    \/ InitPoolmanager

SpecTLS == Init /\ [][NextTLS]_vars

\* A caller that builds sessions and edits their headers.
NextSessions ==
    \/ NewAdapter
    \/ CreateSessionMethod
    \/ CreateSession
    \/ SetHeader
    \/ DelHeader

SpecSessions == Init /\ [][NextSessions]_vars

\* A caller of the convenience functions.
NextRequests ==
    \/ CreateSession
    \/ Get
    \/ Post

SpecRequests == Init /\ [][NextRequests]_vars

\* ------------------------------------------------------------- properties
SevenHeaderNames ==
    {"User-Agent", "Accept", "Accept-Language", "Accept-Encoding",
     "Connection", "Upgrade-Insecure-Requests", "Referer"}

Last(seq) == seq[Len(seq)]

\* The operation that just ended was a factory call that returned a session.
FactoryReturned ==
    /\ lastCall.op \in {"method", "function"}
    /\ lastCall.err = "none"

HeadersOf(s) == headerObjs[sessions[s].headers]

\* The contexts handed to a pool manager: by the init_poolmanager calls of
\* the last operation, and those the adapters on the heap hold.
HandedContexts ==
    {initLog[i].poolKwargs[1].ssl_context[1] :
        i \in {j \in 1..Len(initLog) : initLog[j].err = "none"}}
    \cup {adapters[a].poolKwargs.ssl_context[1] :
            a \in {b \in 1..Len(adapters) :
                      adapters[b].cls = "PublicDataApiSSLAdapter"}}

\* C1: a session a factory call returns has exactly the seven documented
\* header names, each with a non-empty value, however many factory calls
\* came before.
C1_SevenHeaders ==
    FactoryReturned =>
        /\ lastCall.session \in 1..Len(sessions)
        /\ DOMAIN HeadersOf(lastCall.session) = SevenHeaderNames
        /\ \A n \in SevenHeaderNames :
              Len(HeadersOf(lastCall.session)[n]) > 0

C1_Witness ==
    /\ FactoryReturned
    /\ lastCall.op = "method"
    /\ Len(sessions) = 2

\* C2: the User-Agent of a session a factory call returns contains
\* "Mozilla", "Chrome" and "Safari".
C2_BrowserLikeUserAgent ==
    FactoryReturned =>
        LET ua == HeadersOf(lastCall.session)["User-Agent"] IN
        /\ Contains(<< "M", "o", "z", "i", "l", "l", "a" >>, ua)
        /\ Contains(<< "C", "h", "r", "o", "m", "e" >>, ua)
        /\ Contains(<< "S", "a", "f", "a", "r", "i" >>, ua)

\* The operation that just ended was a call of a convenience function.
ConvenienceCalled == lastCall.op \in {"GET", "POST"}

\* C3: a call of public_data_api_get / public_data_api_post creates exactly
\* one session, calls that session's get (respectively post) exactly once
\* with the url and keyword options it was given, calls no other request
\* method, and returns the response object that call returned.
C3_PassThrough ==
    ConvenienceCalled =>
        /\ Len(sessions) = lastCall.sessionsBefore + 1
        /\ Len(requestLog) = 1
        /\ requestLog[1].session = Len(sessions)
        /\ requestLog[1].method = lastCall.op
        /\ requestLog[1].url = lastCall.url
        /\ requestLog[1].kwargs = lastCall.kwargs
        /\ requestLog[1].response = lastCall.response
        /\ (requestLog[1].err = "none" =>
               lastCall.err = "none" /\ lastCall.response > 0)

\* C4: a context handed to the pool manager has minimum_version TLS 1.0 and
\* maximum_version TLS 1.2, and for every set of versions a server offers
\* the negotiable ones are exactly the offered ones among TLS 1.0, 1.1
\* and 1.2.
C4_VersionBounds ==
    \A ctx \in HandedContexts :
        /\ ctx.minimum_version = TLSVersion.TLSv1
        /\ ctx.maximum_version = TLSVersion.TLSv1_2
        /\ \A offered \in SUBSET AllVersions :
              Negotiable(ctx, offered) =
                  offered \cap {TLSVersion.TLSv1, TLSVersion.TLSv1_1,
                                TLSVersion.TLSv1_2}

C4_Witness ==
    /\ HandedContexts # {}
    /\ install.urllib3_context.minimum_version = TLSVersion.TLSv1_2
    /\ lastCall.op = "init_poolmanager"

FiveSuites ==
    << "AES128-SHA", "AES256-SHA", "DHE-RSA-AES128-SHA",
       "DHE-RSA-AES256-SHA", "DES-CBC3-SHA" >>

\* The cipher string of every init_poolmanager call of the last operation
\* lists the five suites in their order, then !aNULL and !eNULL.
FiveThenExclusions ==
    \A i \in 1..Len(initLog) :
        SplitItems(initLog[i].cipher_string, << >>) =
            [k \in 1..5 |-> << FiveSuites[k] >>]
            \o << << "!", "aNULL" >>, << "!", "eNULL" >> >>

\* C5, as claimed: the cipher string lists the five suites in their order,
\* then !aNULL and !eNULL, and the cipher list of a handed context holds no
\* anonymous or null suite and no suite outside the five.
C5_CipherList ==
    /\ FiveThenExclusions
    /\ \A ctx \in HandedContexts :
          /\ Range(get_ciphers(ctx)) \subseteq Range(FiveSuites)
          /\ \A n \in Range(get_ciphers(ctx)) :
                ~InClass(n, "aNULL") /\ ~InClass(n, "eNULL")

\* C5, amended: the cipher string lists the five suites in their order,
\* then !aNULL and !eNULL; the cipher list of a handed context holds no
\* anonymous or null suite; and the suites a handshake with it offers are,
\* in the string's order, those of the five the build has, and at least
\* one.
C5_OfferedSuites ==
    /\ FiveThenExclusions
    /\ \A ctx \in HandedContexts :
          /\ OfferedCiphers(ctx) # << >>
          /\ OfferedCiphers(ctx) =
                 FilterSeq(FiveSuites, BuildCiphers(install.ssl))
          /\ \A n \in Range(get_ciphers(ctx)) :
                ~InClass(n, "aNULL") /\ ~InClass(n, "eNULL")

C5_Witness ==
    /\ Len(initLog) > 0
    /\ \E ctx \in HandedContexts :
          /\ Len(OfferedCiphers(ctx)) = 5
          /\ Len(get_ciphers(ctx)) > 5

\* C6: a context handed to the pool manager has check_hostname off and
\* verify_mode CERT_NONE, and it is the context built by the call, also
\* when the caller passed an ssl_context of its own.
C6_NoVerification ==
    /\ \A ctx \in HandedContexts :
          ctx.check_hostname = FALSE /\ ctx.verify_mode = CERT_NONE
    /\ \A i \in 1..Len(initLog) :
          initLog[i].err = "none" =>
              /\ initLog[i].poolKwargs[1].ssl_context
                     = << Last(initLog[i].trace) >>
              /\ initLog[i].poolKwargs[1].block = initLog[i].kwargs.block

C6_Witness ==
    /\ Len(initLog) = 1
    /\ initLog[1].err = "none"
    /\ initLog[1].kwargs.ssl_context # << >>
    /\ initLog[1].kwargs.ssl_context[1].check_hostname

\* C7: the sessions the factory returned have pairwise distinct header
\* mappings and distinct adapters mounted for https://, and a session whose
\* headers the caller did not touch has the fixed header set, whatever was
\* done to the headers of the others before or after it was created.
C7_IndependentSessions ==
    /\ \A s, t \in 1..Len(sessions) :
          s # t =>
              /\ sessions[s].headers # sessions[t].headers
              /\ sessions[s].adapters["https://"]
                     # sessions[t].adapters["https://"]
    /\ \A s \in 1..Len(sessions) :
          /\ adapters[sessions[s].adapters["https://"]].cls
                 = "PublicDataApiSSLAdapter"
          /\ s \notin mutated => HeadersOf(s) = HeaderSet

C7_Witness ==
    /\ Len(sessions) = 2
    /\ mutated = {1}
    /\ HeadersOf(1) # HeaderSet
    /\ "X-Api-Key" \in DOMAIN HeadersOf(1)
    /\ "User-Agent" \notin DOMAIN HeadersOf(1)
    /\ lastCall.op = "function"

\* C8: init_poolmanager raises nothing when the ssl module lacks
\* OP_LEGACY_SERVER_CONNECT or OP_DONT_INSERT_EMPTY_FRAGMENTS: the option is
\* skipped and the context is handed over with every other setting applied.
C8_BestEffortOptions ==
    \A i \in 1..Len(initLog) :
        /\ initLog[i].err = "none"
        /\ initLog[i].poolKwargs # << >>
        /\ LET ctx == initLog[i].poolKwargs[1].ssl_context[1] IN
           /\ ctx.minimum_version = TLSVersion.TLSv1
           /\ ctx.maximum_version = TLSVersion.TLSv1_2
           /\ ctx.check_hostname = FALSE
           /\ ctx.verify_mode = CERT_NONE
           /\ \A o \in {OP_LEGACY_SERVER_CONNECT,
                        OP_DONT_INSERT_EMPTY_FRAGMENTS} :
                 o \in ctx.options <=> hasattr(install.ssl, o)

\* C9: when the session's get / post raises, the convenience function ends
\* with that same exception, after one request on one new session and
\* without a response.
C9_ErrorsPropagate ==
    (ConvenienceCalled /\ requestLog # << >> /\ requestLog[1].err # "none") =>
        /\ lastCall.err = requestLog[1].err
        /\ lastCall.response = 0
        /\ Len(requestLog) = 1
        /\ Len(sessions) = lastCall.sessionsBefore + 1

C9_Witness ==
    /\ lastCall.op = "POST"
    /\ requestLog # << >>
    /\ requestLog[1].err = "Timeout"
    /\ lastCall.sessionsBefore = 1

\* C10: no statement of init_poolmanager asks for a context with
\* check_hostname on and verify_mode CERT_NONE, so the ssl library never
\* answers with ValueError, whatever the fresh context's settings.
C10_HostnameOffFirst ==
    \A i \in 1..Len(initLog) :
        /\ initLog[i].err # "ValueError"
        /\ \A k \in 1..Len(initLog[i].trace) :
              ~(/\ initLog[i].trace[k].check_hostname
                /\ initLog[i].trace[k].verify_mode = CERT_NONE)

C10_Witness ==
    /\ Len(initLog) > 0
    /\ initLog[1].ctx0.check_hostname
    /\ Len(initLog[1].trace) >= 5
    /\ initLog[1].trace[5].verify_mode = CERT_NONE

====
